---- MODULE Spec2Model ----
(***************************************************************************)
(* Model of the feature-to-grid resolution and validation engine:          *)
(*   processors/FeatureProcessor.py  (FeatureProcess)                      *)
(*   SummaryInfo.py                  (SummaryInfo)                         *)
(*   postprocessors/SuperpositionCheck.py (SuperpositionCheck)             *)
(***************************************************************************)
EXTENDS Integers, Sequences, FiniteSets, TLC

(***************************************************************************)
(* Bounds of the exploration and the input alphabets.                      *)
(***************************************************************************)
MaxCalls == 3

Cells == { [row |-> 1, col |-> 1], [row |-> 1, col |-> 2] }
Names == { "x", "y", "z" }
Metrics == { 1, 2 }
MainMap == "main_map"
SecondaryMaps == << "sec_a", "sec_b" >>
MapNames == { MainMap } \cup { SecondaryMaps[i] : i \in 1..Len(SecondaryMaps) }
\* the backend id a fragment of map_name carries for the cell it falls in
BackendId(cell, map_name) ==
    10 * cell.row + cell.col + (IF map_name = MainMap THEN 0 ELSE 100)

VARIABLES
    cells,        \* FeatureProcess.cells    : cell -> ordered dict name -> data
    cell_ids,     \* FeatureProcess.cell_ids : cell -> record of the resolved cell
    fed,          \* history: the metrics passed to _set_cell per (cell, name)
    nCalls,       \* number of _set_cell calls made so far
    lastOp,       \* the operation that produced the current state
    className,    \* self.__class__.__name__ of the engine
    cols_number,  \* config.get_columns_to_save(feature_type)
    ledger,       \* ErrorManager: the diagnostics in append order
    errMark,      \* length of the ledger when the last operation started
    process_lines,\* SummaryInfo.process_lines
    ret,          \* value returned by the last operation
    _features_by_map, \* FeatureProcess._features_by_map : name -> set of map names
    geo_ids,      \* reference topology: feature name -> element id (or none)
    map_areas,    \* the areas (cat, main-field value) of every vector map
    imported,     \* map_names[m]['imported']
    nRuns,        \* number of validator runs made so far
    nodes,        \* SuperpositionCheck.nodes : node id -> node
    connections,  \* SuperpositionCheck.connections : base name -> list of names
    connection_error, \* SuperpositionCheck.connection_error : base name -> set
    errors,       \* Check.errors : the messages of the check
    topo_arcs,    \* the arcs of the reference topology
    grid,         \* the feature names of every grid cell
    pending,      \* the node, arc and cell operations still to be called
    phased,       \* TRUE while node_init < arc_check < cell_check was respected
    runNo,        \* number of the current run of the superposition check
    reported      \* connection_error as the previous run left it

aggVars == << cells, cell_ids, fed, nCalls >>
cfgVars == << className, cols_number >>
valVars == << _features_by_map, geo_ids, map_areas, imported, nRuns >>
vars == << cells, cell_ids, fed, nCalls, lastOp, className, cols_number,
           ledger, errMark, process_lines, ret,
           _features_by_map, geo_ids, map_areas, imported, nRuns,
           nodes, connections, connection_error, errors, topo_arcs, grid,
           pending, phased, runNo, reported >>
supVars == << nodes, connections, connection_error, errors, topo_arcs, grid,
              pending, phased, runNo, reported >>

(***************************************************************************)
(* Helpers on ordered dictionaries (python dicts keep insertion order).    *)
(* An ordered dict is a sequence of [key, data] entries with distinct keys.*)
(***************************************************************************)
Keys(d) == { d[i].key : i \in 1..Len(d) }

IndexOf(d, k) == CHOOSE i \in 1..Len(d) : d[i].key = k

Lookup(d, k) == d[IndexOf(d, k)].data

RECURSIVE SumSeq(_)
SumSeq(s) == IF s = << >> THEN 0 ELSE Head(s) + SumSeq(Tail(s))

EmptyMap == [c \in {} |-> 0]

None == "None"

(***************************************************************************)
(* FeatureProcess._cell_order_criteria_default: sorted(items, key=area,    *)
(* reverse=True).  Python's sort is stable also with reverse=True, so an   *)
(* element is placed after every element whose key is >= its own.          *)
(***************************************************************************)
InsertDescBroken(sorted, e) ==
    LET before == { i \in 1..Len(sorted) : sorted[i].data.area > e.data.area }
        n == Cardinality(before)
    IN  SubSeq(sorted, 1, n) \o << e >> \o SubSeq(sorted, n + 1, Len(sorted))

InsertDesc(sorted, e) ==
    LET before == { i \in 1..Len(sorted) : sorted[i].data.area >= e.data.area }
        n == Cardinality(before)
    IN  SubSeq(sorted, 1, n) \o << e >> \o SubSeq(sorted, n + 1, Len(sorted))

RECURSIVE SortItemsDesc(_)
SortItemsDesc(items) ==
    IF items = << >> THEN << >>
    ELSE InsertDesc(SortItemsDesc(SubSeq(items, 1, Len(items) - 1)), items[Len(items)])

\* the list of data objects, returned as references (keys) into cells_dict[cell]
_cell_order_criteria_default(cell, cells_dict) ==
    LET area_targets_sorted == SortItemsDesc(cells_dict[cell])
    IN  [i \in 1..Len(area_targets_sorted) |-> area_targets_sorted[i].key]

(***************************************************************************)
(* FeatureProcess._set_cell                                                *)
(***************************************************************************)
SetCellDictReplace(cells_dict, cell, area_name, data) ==
    IF cell \in DOMAIN cells_dict
    THEN IF area_name \in Keys(cells_dict[cell])
         THEN LET i == IndexOf(cells_dict[cell], area_name)
              IN  [cells_dict EXCEPT ![cell][i].data.area = data.area]
         ELSE [cells_dict EXCEPT ![cell] = Append(@, [key |-> area_name, data |-> data])]
    ELSE (cell :> << [key |-> area_name, data |-> data] >>) @@ cells_dict

SetCellDictOverwrite(cells_dict, cell, area_name, data) ==
    IF cell \in DOMAIN cells_dict
    THEN IF area_name \in Keys(cells_dict[cell])
         THEN LET i == IndexOf(cells_dict[cell], area_name)
              IN  [cells_dict EXCEPT ![cell][i].data =
                       [data EXCEPT !.area = cells_dict[cell][i].data.area + data.area]]
         ELSE [cells_dict EXCEPT ![cell] = Append(@, [key |-> area_name, data |-> data])]
    ELSE (cell :> << [key |-> area_name, data |-> data] >>) @@ cells_dict

SetCellDict(cells_dict, cell, area_name, data) ==
    IF cell \in DOMAIN cells_dict
    THEN IF area_name \in Keys(cells_dict[cell])
         THEN LET i == IndexOf(cells_dict[cell], area_name)
              IN  [cells_dict EXCEPT ![cell][i].data.area = @ + data.area]
         ELSE [cells_dict EXCEPT ![cell] = Append(@, [key |-> area_name, data |-> data])]
    ELSE (cell :> << [key |-> area_name, data |-> data] >>) @@ cells_dict

_set_cell(cell, area_name, data) ==
    /\ cells' = SetCellDict(cells, cell, area_name, data)
    /\ fed' = [fed EXCEPT ![<< cell, area_name >>] = Append(@, data.area)]
    /\ nCalls' = nCalls + 1
    /\ lastOp' = [op |-> "_set_cell", cell |-> cell, name |-> area_name,
                   map_name |-> data.map_name]
    /\ errMark' = Len(ledger)
    /\ ret' = None
    /\ UNCHANGED << cell_ids, cfgVars, ledger, process_lines, valVars, supVars >>

(***************************************************************************)
(* FeatureProcess._set_cell_by_criteria: every cell of self.cells gets its *)
(* record (re)written; keys of cell_ids that are not in cells are kept.    *)
(* 'data' holds the very objects of self.cells[cell], modelled as keys.    *)
(***************************************************************************)
CellRecordOfLast(cell, cells_dict) ==
    LET area_targets_ordered == _cell_order_criteria_default(cell, cells_dict)
    IN  [ number_of_data |-> Len(area_targets_ordered),
          cell_id |-> Lookup(cells_dict[cell],
                             area_targets_ordered[Len(area_targets_ordered)]).cell_id,
          row |-> cell.row,
          col |-> cell.col,
          data |-> area_targets_ordered ]

CellRecordOf(cell, cells_dict) ==
    LET area_targets_ordered == _cell_order_criteria_default(cell, cells_dict)
    IN  [ number_of_data |-> Len(area_targets_ordered),
          cell_id |-> Lookup(cells_dict[cell], area_targets_ordered[1]).cell_id,
          row |-> cell.row,
          col |-> cell.col,
          data |-> area_targets_ordered ]

SetCellByCriteriaOnlyNew(ids, cells_dict) ==
    [ cell \in DOMAIN ids \cup DOMAIN cells_dict |->
        IF cell \in DOMAIN ids THEN ids[cell] ELSE CellRecordOf(cell, cells_dict) ]

SetCellByCriteria(ids, cells_dict) ==
    [ cell \in DOMAIN ids \cup DOMAIN cells_dict |->
        IF cell \in DOMAIN cells_dict THEN CellRecordOf(cell, cells_dict) ELSE ids[cell] ]

_set_cell_by_criteria ==
    /\ cell_ids' = SetCellByCriteria(cell_ids, cells)
    /\ lastOp' = [op |-> "_set_cell_by_criteria"]
    /\ errMark' = Len(ledger)
    /\ ret' = None
    /\ UNCHANGED << cells, fed, nCalls, cfgVars, ledger, process_lines, valVars, supVars >>

\* the resolved records as a reader sees them: 'data' dereferenced
Candidates(cell) ==
    [i \in 1..Len(cell_ids[cell].data) |-> Lookup(cells[cell], cell_ids[cell].data[i])]

(***************************************************************************)
(* Configuration of the engine (ConfigApp): class name -> feature type,    *)
(* the export columns of the main map and of the secondary maps.           *)
(***************************************************************************)
ClassNames == { "DemandSiteProcess", "CatchmentProcess" }

type_names(class_name) ==
    IF class_name = "DemandSiteProcess" THEN "demand_site" ELSE "catchment"

get_feature_type == type_names(className)

MainColumns == << "F1", "F2" >>
InfoColumns == << "I1", "I2" >>
ColumnChoices == { 1, 2 }

Min(a, b) == IF a < b THEN a ELSE b

(***************************************************************************)
(* Diagnostics ledger (ErrorManager) and SummaryInfo.append_error.         *)
(***************************************************************************)
ErrAppend(errs, msg, typ, is_warn, code) ==
    Append(errs, [msg |-> msg, typ |-> typ, is_warn |-> is_warn, code |-> code])

RECURSIVE ErrAppendAll(_, _, _, _, _)
ErrAppendAll(errs, msgs, typ, is_warn, code) ==
    IF msgs = << >> THEN errs
    ELSE ErrAppendAll(ErrAppend(errs, Head(msgs), typ, is_warn, code),
                      Tail(msgs), typ, is_warn, code)

\* msg = NoMsg stands for a missing (or empty) msg, msgs = << >> for missing msgs
NoMsg == [kind |-> "none"]

append_error(errs, msg, msgs, typ, is_warn, code) ==
    LET t == IF typ = None THEN get_feature_type ELSE typ
    IN  IF is_warn
        THEN IF msg # NoMsg THEN ErrAppend(errs, msg, t, is_warn, code)
             ELSE ErrAppendAll(errs, msgs, t, is_warn, code)
        ELSE IF msg # NoMsg THEN ErrAppend(errs, msg, t, FALSE, code)
             ELSE ErrAppendAll(errs, msgs, t, FALSE, code)

CodeMatches(e, code) == code = "" \/ e.code = code

get_errors(errs, code) ==
    SelectSeq(errs, LAMBDA e : e.typ = get_feature_type /\ ~e.is_warn /\ CodeMatches(e, code))

get_warnings(errs, code) ==
    SelectSeq(errs, LAMBDA e : e.typ = get_feature_type /\ e.is_warn /\ CodeMatches(e, code))

check_errors(errs, code) == get_errors(errs, code) # << >>

set_process_line_first(lines, msg_name, check_error, args) ==
    << [line |-> << msg_name, args >>,
        status |-> IF check_error THEN "ERROR" ELSE "OK"] >> \o lines

\* SummaryInfo.set_process_line
set_process_line(lines, msg_name, check_error, args) ==
    Append(lines, [line |-> << msg_name, args >>,
                   status |-> IF check_error THEN "ERROR" ELSE "OK"])

(***************************************************************************)
(* FeatureProcess.get_cell_data_by_map and get_data_to_save                *)
(***************************************************************************)
get_cell_data_by_map(map_name, cell) ==
    IF cell \in DOMAIN cell_ids
    THEN SelectSeq(Candidates(cell), LAMBDA d : d.map_name = map_name)
    ELSE << >>

MainColumnsDataNoPadding(col_names, col_data, n_cols) ==
    LET values_to_save == Min(n_cols, Len(col_data))
    IN  [ k \in { col_names[i] : i \in 1..values_to_save } |->
            LET i == CHOOSE i \in 1..values_to_save : col_names[i] = k
            IN  col_data[i].name ]

\* the dict built at lines 383-385: the filled columns, then the '' padding
MainColumnsData(col_names, col_data, n_cols) ==
    LET values_to_save == Min(n_cols, Len(col_data))
        filled == { i \in 1..values_to_save : TRUE }
        padded == { n_cols - j : j \in 0..(n_cols - values_to_save - 1) }
    IN  [ k \in { col_names[i] : i \in filled \cup padded } |->
            LET i == CHOOSE i \in filled \cup padded : col_names[i] = k
            IN  IF i \in padded THEN "" ELSE col_data[i].name ]

MainOverflowAll(col_data, n_cols, class_name) ==
    Len(col_data) > n_cols

MainOverflow(col_data, n_cols, class_name) ==
    Len(col_data) > n_cols /\ class_name = "DemandSiteProcess"

get_data_to_save_main(cell) ==
    LET main_map == MainMap
        col_data == get_cell_data_by_map(main_map, cell)
        col_names == MainColumns
        msg_error == [ kind |-> "capacity", row |-> cell.row, col |-> cell.col,
                       map |-> main_map, count |-> Len(col_data), limit |-> cols_number ]
    IN  /\ ledger' = IF col_data # << >> /\ MainOverflow(col_data, cols_number, className)
                     THEN append_error(ledger, msg_error, << >>, type_names(className), TRUE, "")
                     ELSE ledger
        /\ ret' = IF col_data # << >>
                  THEN MainColumnsData(col_names, col_data, cols_number)
                  ELSE [ k \in { col_names[i] : i \in 1..cols_number } |-> "" ]
        /\ errMark' = Len(ledger)
        /\ lastOp' = [op |-> "get_data_to_save", main_data |-> TRUE, cell |-> cell]
        /\ UNCHANGED << aggVars, cfgVars, process_lines, valVars, supVars >>

\* the loop of lines 393-401 over the secondary maps ind..Len(SecondaryMaps)
RECURSIVE SecondaryErrors(_, _, _)
SecondaryErrors(errs, cell, ind) ==
    IF ind > Len(SecondaryMaps) THEN errs
    ELSE LET map_name == SecondaryMaps[ind]
             cell_data == get_cell_data_by_map(map_name, cell)
             msg_error == [ kind |-> "many_values", map |-> map_name, row |-> cell.row,
                            col |-> cell.col, first |-> cell_data[1].name ]
         IN  SecondaryErrors(
                 IF Len(cell_data) > 1
                 THEN append_error(errs, msg_error, << >>, type_names(className), FALSE, "")
                 ELSE errs,
                 cell, ind + 1)

SecondaryColumnsData(cell) ==
    [ k \in { InfoColumns[ind] : ind \in 1..Len(SecondaryMaps) } |->
        LET ind == CHOOSE ind \in 1..Len(SecondaryMaps) : InfoColumns[ind] = k
            cell_data == get_cell_data_by_map(SecondaryMaps[ind], cell)
        IN  IF cell_data # << >> THEN cell_data[1].name ELSE "" ]

get_data_to_save_secondary(cell) ==
    /\ ledger' = SecondaryErrors(ledger, cell, 1)
    /\ ret' = SecondaryColumnsData(cell)
    /\ errMark' = Len(ledger)
    /\ lastOp' = [op |-> "get_data_to_save", main_data |-> FALSE, cell |-> cell]
    /\ UNCHANGED << aggVars, cfgVars, process_lines, valVars, supVars >>

(***************************************************************************)
(* Cross-map name validator: the name -> maps index and the two checks.    *)
(***************************************************************************)
AllMaps == << MainMap >> \o SecondaryMaps

FNames == { "a", "b" }

NoCat == "None"
Area(cat, name) == [cat |-> cat, name |-> name]

\* the area lists a vector map may hold; '' is a missing main-field value
AreaLists ==
    { << >>,
      << Area("1", "a") >>,
      << Area("1", "b"), Area("2", "a") >>,
      << Area("1", "a"), Area("2", "a"), Area("3", "") >>,
      << Area(NoCat, "a"), Area("1", "b") >> }

NoId == [some |-> FALSE]
SomeId(id) == [some |-> TRUE, id |-> id]
\* python truthiness of an element id
Truthy(feature_id) == feature_id.some /\ feature_id.id # 0

\* lines 207-210: one area of map_name scanned into the index
IndexAdd(index, feature_name, map_name) ==
    IF feature_name \in Keys(index)
    THEN [index EXCEPT ![IndexOf(index, feature_name)].data = @ \cup { map_name }]
    ELSE Append(index, [key |-> feature_name, data |-> { map_name }])

\* lines 200-210: the areas i.. of one map
RECURSIVE ScanAreas(_, _, _, _)
ScanAreas(index, map_name, areas, i) ==
    IF i > Len(areas) THEN index
    ELSE IF areas[i].cat = NoCat \/ areas[i].name = ""
         THEN ScanAreas(index, map_name, areas, i + 1)
         ELSE ScanAreas(IndexAdd(index, areas[i].name, map_name), map_name, areas, i + 1)

\* lines 186-212: the maps k.. of map_names, only the imported ones
RECURSIVE ScanMaps(_, _)
ScanMaps(index, k) ==
    IF k > Len(AllMaps) THEN index
    ELSE IF imported[AllMaps[k]]
         THEN ScanMaps(ScanAreas(index, AllMaps[k], map_areas[AllMaps[k]], 1), k + 1)
         ELSE ScanMaps(index, k + 1)

set_feature_names_in_maps(index) == ScanMaps(index, 1)

\* lines 218-219 and 239-240
IndexForCheck == IF Len(_features_by_map) = 0
                 THEN set_feature_names_in_maps(_features_by_map)
                 ELSE _features_by_map

get_feature_id_by_name(feature_name) == geo_ids[feature_name]

MissingInGeoAlways(feature_id) == TRUE

MissingInGeo(feature_id) == ~Truthy(feature_id)

\* lines 221-229: the loop over the entries i.. of the index
RECURSIVE GeoNameErrors(_, _, _)
GeoNameErrors(errs, index, i) ==
    IF i > Len(index) THEN errs
    ELSE LET feature_name == index[i].key
             feature_id == get_feature_id_by_name(feature_name)
             msg_error == [ kind |-> "not_in_geo", name |-> feature_name,
                            maps |-> index[i].data ]
         IN  GeoNameErrors(
                 IF MissingInGeo(feature_id)
                 THEN append_error(errs, msg_error, << >>, get_feature_type, FALSE, "10")
                 ELSE errs,
                 index, i + 1)

check_names_with_geo ==
    LET index == IndexForCheck
        errs == GeoNameErrors(ledger, index, 1)
    IN  /\ _features_by_map' = index
        /\ ledger' = errs
        /\ process_lines' = set_process_line(process_lines, "check_names_with_geo",
                                             check_errors(errs, "10"), << >>)
        /\ ret' = << check_errors(errs, "10"), get_errors(errs, "10") >>
        /\ errMark' = Len(ledger)
        /\ lastOp' = [op |-> "check_names_with_geo"]
        /\ nRuns' = nRuns + 1
        /\ UNCHANGED << aggVars, cfgVars, geo_ids, map_areas, imported, supVars >>

InSeveralMapsOrOne(map_names) == Cardinality(map_names) >= 1

InSeveralMaps(map_names) == Cardinality(map_names) > 1

\* lines 242-248: check_maps and the loop over it
RECURSIVE BetweenMapsErrors(_, _, _)
BetweenMapsErrors(errs, index, i) ==
    IF i > Len(index) THEN errs
    ELSE LET feature_name == index[i].key
             msg_error == [ kind |-> "in_several_maps", name |-> feature_name,
                            maps |-> index[i].data ]
         IN  BetweenMapsErrors(
                 IF InSeveralMaps(index[i].data)
                 THEN append_error(errs, msg_error, << >>, get_feature_type, FALSE, "11")
                 ELSE errs,
                 index, i + 1)

check_names_between_maps ==
    LET index == IndexForCheck
        errs == BetweenMapsErrors(ledger, index, 1)
    IN  /\ _features_by_map' = index
        /\ ledger' = errs
        /\ process_lines' = set_process_line(process_lines, "check_names_between_maps",
                                             check_errors(errs, "11"), << >>)
        /\ ret' = << check_errors(errs, "11"), get_errors(errs, "11") >>
        /\ errMark' = Len(ledger)
        /\ lastOp' = [op |-> "check_names_between_maps"]
        /\ nRuns' = nRuns + 1
        /\ UNCHANGED << aggVars, cfgVars, geo_ids, map_areas, imported, supVars >>

(***************************************************************************)
(* The process trail (SummaryInfo) and the engine steps that log into it.  *)
(***************************************************************************)
valInputs == << _features_by_map, geo_ids, map_areas, imported >>

\* Utils.insert_ui: the text with its presentation metadata
insert_ui(text, highlight_color) == [text |-> text, highlight_color |-> highlight_color]

\* SummaryInfo.set_process_line called by a step of the engine
log_step(msg_name, check_error) ==
    /\ process_lines' = set_process_line(process_lines, msg_name, check_error, << >>)
    /\ lastOp' = [op |-> "set_process_line", failed |-> check_error]
    /\ errMark' = Len(ledger)
    /\ ret' = None
    /\ nRuns' = nRuns + 1
    /\ UNCHANGED << aggVars, cfgVars, ledger, valInputs, supVars >>

\* lines 62-78: the rendered copy of the lines
RenderedLines(lines) ==
    [ i \in 1..Len(lines) |->
        [ line |-> insert_ui(lines[i].line, "darkred"),
          status |-> IF lines[i].status = "OK"
                     THEN insert_ui(<< "[", lines[i].status, "]" >>, "green")
                     ELSE insert_ui(<< "[", lines[i].status, "]" >>, "red") ] ]

get_process_lines(with_ui) ==
    /\ ret' = IF with_ui THEN RenderedLines(process_lines) ELSE process_lines
    /\ lastOp' = [op |-> "get_process_lines", with_ui |-> with_ui]
    /\ errMark' = Len(ledger)
    /\ UNCHANGED << aggVars, cfgVars, ledger, process_lines, valVars, supVars >>

print_process_line ==
    /\ ret' = [ i \in 1..Len(process_lines) |->
                  << "  ", process_lines[i].line, "  [", process_lines[i].status, "] \n" >> ]
    /\ lastOp' = [op |-> "print_process_line"]
    /\ errMark' = Len(ledger)
    /\ UNCHANGED << aggVars, cfgVars, ledger, process_lines, valVars, supVars >>

\* SummaryInfo.append_error called with one message
log_error(is_warn, code) ==
    /\ ledger' = append_error(ledger, [kind |-> "other", name |-> "-"], << >>,
                              None, is_warn, code)
    /\ lastOp' = [op |-> "append_error"]
    /\ errMark' = Len(ledger)
    /\ ret' = None
    /\ nRuns' = nRuns + 1
    /\ UNCHANGED << aggVars, cfgVars, process_lines, valInputs, supVars >>

(***************************************************************************)
(* FeatureProcess._inter_map_with_linkage                                  *)
(***************************************************************************)
InterMapFailedOwn(errs, _err) == _err

\* line 362: the check_error argument of the process line
InterMapFailed(errs, _err) == check_errors(errs, "")

_inter_map_with_linkage(map_name, _err) ==
    LET extract_name == << map_name, "_extract" >>
        _errors == IF _err THEN << [kind |-> "overlay", name |-> map_name] >> ELSE << >>
        errs == IF _err
                THEN append_error(ledger, NoMsg, _errors, get_feature_type, FALSE, "")
                ELSE ledger
    IN  /\ ledger' = errs
        /\ process_lines' = set_process_line(process_lines, "_inter_map_with_linkage",
                                             InterMapFailed(errs, _err), << extract_name >>)
        /\ ret' = << check_errors(errs, ""), get_errors(errs, "") >>
        /\ lastOp' = [op |-> "_inter_map_with_linkage", _err |-> _err]
        /\ errMark' = Len(ledger)
        /\ nRuns' = nRuns + 1
        /\ UNCHANGED << aggVars, cfgVars, valInputs, supVars >>

(***************************************************************************)
(* FeatureProcess.check_basic_columns                                      *)
(***************************************************************************)
\* get_needed_field_names: field key -> name and needed flag (none if unset)
NoField == [name |-> "", needed |-> FALSE, set |-> FALSE]
Field(name, needed) == [name |-> name, needed |-> needed, set |-> TRUE]
NeededFields == << Field("NAME", TRUE), NoField, Field("TYPE", FALSE) >>
ColumnNames == { NeededFields[k].name : k \in { k \in 1..Len(NeededFields) : NeededFields[k].set } }

\* GrassCoreAPI.check_basic_columns for one column of the map
GrassCheckBasicColumns(map_name, present, field_name, needed) ==
    IF field_name \in present
    THEN [err |-> FALSE, errors |-> << >>]
    ELSE [err |-> needed,
          errors |-> << [kind |-> "column", name |-> field_name, map |-> map_name] >>]

MissingIsWarnNever(needed) == FALSE

\* lines 472-475: the is_warn flag of the diagnostics of a column
MissingIsWarn(needed) == ~needed

\* lines 464-475: the loop over the fields k.. ; the lines and the ledger
RECURSIVE BasicColumns(_, _, _, _)
BasicColumns(state, map_name, present, k) ==
    IF k > Len(NeededFields) THEN state
    ELSE IF ~NeededFields[k].set
         THEN BasicColumns(state, map_name, present, k + 1)
         ELSE LET field_name == NeededFields[k].name
                  needed == NeededFields[k].needed
                  res == GrassCheckBasicColumns(map_name, present, field_name, needed)
              IN  BasicColumns(
                      [ lines |-> set_process_line(state.lines, "check_basic_columns",
                                                   res.err, << map_name, field_name >>),
                        errs |-> append_error(state.errs, NoMsg, res.errors, get_feature_type,
                                              MissingIsWarn(needed), "20") ],
                      map_name, present, k + 1)

check_basic_columns(map_name, present) ==
    LET out == BasicColumns([lines |-> process_lines, errs |-> ledger], map_name, present, 1)
    IN  /\ ledger' = out.errs
        /\ process_lines' = out.lines
        /\ ret' = << check_errors(out.errs, "20"), get_errors(out.errs, "20") >>
        /\ lastOp' = [op |-> "check_basic_columns", map |-> map_name, present |-> present]
        /\ errMark' = Len(ledger)
        /\ nRuns' = nRuns + 1
        /\ UNCHANGED << aggVars, cfgVars, valInputs, supVars >>

(***************************************************************************)
(* SuperpositionCheck between a base and a secondary feature type.         *)
(***************************************************************************)
base_feature == "catchment"
secondary_feature == "groundwater"
base_feature_type_id == 21
secondary_feature_type_id == 3
other_type_id == 1

\* the nodes of the reference topology: node id -> node
TopoNodes ==
    ( 1 :> [type_id |-> base_feature_type_id, name |-> "A"] ) @@
    ( 2 :> [type_id |-> secondary_feature_type_id, name |-> "G"] ) @@
    ( 3 :> [type_id |-> secondary_feature_type_id, name |-> "H"] ) @@
    ( 4 :> [type_id |-> other_type_id, name |-> "G"] )

\* 0 stands for a missing (falsy) end of an arc
NoNode == 0
Arc(src_id, dst_id) == [src_id |-> src_id, dst_id |-> dst_id]
ArcUniverse == { Arc(1, 2), Arc(2, 1), Arc(3, 1), Arc(1, 4), Arc(2, 3), Arc(NoNode, 2) }
MaxArcs == 2

\* the base and secondary names get_cell_feature_names lists for a grid cell
GridCell(base, secondary) == [base |-> base, secondary |-> secondary]
GridCells == { GridCell(<< "A" >>, << "G" >>),
               GridCell(<< "A", "B" >>, << "G", "H" >>),
               GridCell(<< "B" >>, << >>) }
GridIds == { 1, 2 }

get_cell_feature_names(cell, feature) ==
    IF feature = base_feature THEN cell.base ELSE cell.secondary

add_error(conn_err, base_element, super_element) ==
    IF base_element \in Keys(conn_err) /\ Lookup(conn_err, base_element) # {}
    THEN [conn_err EXCEPT ![IndexOf(conn_err, base_element)].data = @ \cup { super_element }]
    ELSE IF base_element \in Keys(conn_err)
         THEN [conn_err EXCEPT ![IndexOf(conn_err, base_element)].data = { super_element }]
         ELSE Append(conn_err, [key |-> base_element, data |-> { super_element }])

set_connection(conns, base_info, secondary_info) ==
    IF base_info.name \in Keys(conns) /\ Lookup(conns, base_info.name) # << >>
    THEN [conns EXCEPT ![IndexOf(conns, base_info.name)].data = Append(@, secondary_info.name)]
    ELSE IF base_info.name \in Keys(conns)
         THEN [conns EXCEPT ![IndexOf(conns, base_info.name)].data = << secondary_info.name >>]
         ELSE Append(conns, [key |-> base_info.name, data |-> << secondary_info.name >>])

check_connection(conns, base_name, secondary_name) ==
    IF base_name \in Keys(conns) /\ Lookup(conns, base_name) # << >>
    THEN \E i \in 1..Len(Lookup(conns, base_name)) :
             Lookup(conns, base_name)[i] = secondary_name
    ELSE FALSE

node_init_operation(node_id, node) ==
    /\ nodes' = IF node.type_id = base_feature_type_id
                   \/ node.type_id = secondary_feature_type_id
                THEN (node_id :> node) @@ nodes
                ELSE nodes
    /\ pending' = [pending EXCEPT !.nodes = @ \ { node_id }]
    /\ phased' = (phased /\ pending.arcs = topo_arcs /\ pending.cells = DOMAIN grid)
    /\ lastOp' = [op |-> "node_init_operation"]
    /\ UNCHANGED << connections, connection_error, errors, topo_arcs, grid, runNo, reported >>

ArcConnectionsOneWay(conns, known, arc) ==
    LET src_id == arc.src_id
        dst_id == arc.dst_id
    IN  IF (src_id # NoNode /\ dst_id # NoNode)
           /\ (src_id \in DOMAIN known /\ dst_id \in DOMAIN known)
        THEN IF known[src_id].type_id = base_feature_type_id
                /\ known[dst_id].type_id = secondary_feature_type_id
             THEN set_connection(conns, known[src_id], known[dst_id])
             ELSE conns
        ELSE conns

\* lines 59-66
ArcConnections(conns, known, arc) ==
    LET src_id == arc.src_id
        dst_id == arc.dst_id
    IN  IF (src_id # NoNode /\ dst_id # NoNode)
           /\ (src_id \in DOMAIN known /\ dst_id \in DOMAIN known)
        THEN IF known[src_id].type_id = base_feature_type_id
                /\ known[dst_id].type_id = secondary_feature_type_id
             THEN set_connection(conns, known[src_id], known[dst_id])
             ELSE IF known[src_id].type_id = secondary_feature_type_id
                     /\ known[dst_id].type_id = base_feature_type_id
                  THEN set_connection(conns, known[dst_id], known[src_id])
                  ELSE conns
        ELSE conns

arc_check_operation(arc) ==
    /\ connections' = ArcConnections(connections, nodes, arc)
    /\ pending' = [pending EXCEPT !.arcs = @ \ { arc }]
    /\ phased' = (phased /\ pending.nodes = {} /\ pending.cells = DOMAIN grid)
    /\ lastOp' = [op |-> "arc_check_operation"]
    /\ UNCHANGED << nodes, connection_error, errors, topo_arcs, grid, runNo, reported >>

\* lines 75-78: the base names i.. against the secondary names j..
RECURSIVE CellErrors(_, _, _, _, _)
CellErrors(conn_err, base_element, secondary_element, i, j) ==
    IF i > Len(base_element) THEN conn_err
    ELSE IF j > Len(secondary_element)
         THEN CellErrors(conn_err, base_element, secondary_element, i + 1, 1)
         ELSE CellErrors(
                  IF ~check_connection(connections, base_element[i], secondary_element[j])
                  THEN add_error(conn_err, base_element[i], secondary_element[j])
                  ELSE conn_err,
                  base_element, secondary_element, i, j + 1)

cell_check_operation(cell_id, cell) ==
    LET base_element == get_cell_feature_names(cell, base_feature)
        secondary_element == get_cell_feature_names(cell, secondary_feature)
    IN  /\ connection_error' = CellErrors(connection_error, base_element, secondary_element, 1, 1)
        /\ pending' = [pending EXCEPT !.cells = @ \ { cell_id }]
        /\ phased' = (phased /\ pending.nodes = {} /\ pending.arcs = {})
        /\ lastOp' = [op |-> "cell_check_operation"]
        /\ UNCHANGED << nodes, connections, errors, topo_arcs, grid, runNo, reported >>

make_errors_dict ==
    /\ errors' = errors \o [ i \in 1..Len(connection_error) |->
                               [ base |-> connection_error[i].key,
                                 base_feature |-> base_feature,
                                 secondaries |-> connection_error[i].data,
                                 secondary_feature |-> secondary_feature ] ]
    /\ lastOp' = [op |-> "make_errors_dict", mark |-> Len(errors)]
    /\ UNCHANGED << nodes, connections, connection_error, topo_arcs, grid, pending, phased,
                   runNo, reported >>

(***************************************************************************)
(* Initial state (FeatureProcess.__init__) and the aggregation runs.       *)
(***************************************************************************)
AggInit ==
    /\ cells = EmptyMap
    /\ cell_ids = EmptyMap
    /\ fed = [p \in Cells \X Names |-> << >>]
    /\ nCalls = 0
    /\ lastOp = [op |-> "init"]

LedgerInit ==
    /\ ledger = << >>
    /\ errMark = 0
    /\ process_lines = << >>
    /\ ret = None

\* an engine with no vector map imported and an empty reference topology
ValIdle ==
    /\ _features_by_map = << >>
    /\ geo_ids = [n \in FNames |-> NoId]
    /\ map_areas = [m \in MapNames |-> << >>]
    /\ imported = [m \in MapNames |-> FALSE]
    /\ nRuns = 0

\* a checker constructed over an empty topology and grid
SupIdle ==
    /\ nodes = EmptyMap
    /\ connections = << >>
    /\ connection_error = << >>
    /\ errors = << >>
    /\ topo_arcs = {}
    /\ grid = EmptyMap
    /\ pending = [nodes |-> {}, arcs |-> {}, cells |-> {}]
    /\ phased = TRUE
    /\ runNo = 1
    /\ reported = << >>

Init ==
    /\ AggInit
    /\ LedgerInit
    /\ ValIdle
    /\ SupIdle
    /\ className = "DemandSiteProcess"
    /\ cols_number = Len(MainColumns)

Accumulate ==
    \E cell \in Cells, area_name \in Names, area \in Metrics, map_name \in MapNames :
        _set_cell(cell, area_name,
                  [name |-> area_name, area |-> area,
                   cell_id |-> BackendId(cell, map_name), map_name |-> map_name])

Resolve == _set_cell_by_criteria

Next ==
    \/ nCalls < MaxCalls /\ Accumulate
    \/ Resolve

Spec == Init /\ [][Next]_vars

(***************************************************************************)
(* The record builder over the aggregated cells, for every engine class    *)
(* and every configured number of main columns.                            *)
(***************************************************************************)
MaxRecCalls == 2
MaxLedger == 2

RecInit ==
    /\ AggInit
    /\ LedgerInit
    /\ ValIdle
    /\ SupIdle
    /\ className \in ClassNames
    /\ cols_number \in ColumnChoices

BuildMain == \E cell \in Cells : get_data_to_save_main(cell)

BuildSecondary == \E cell \in Cells : get_data_to_save_secondary(cell)

RecNext ==
    \/ nCalls < MaxRecCalls /\ Accumulate
    \/ Resolve
    \/ Len(ledger) < MaxLedger /\ BuildMain
    \/ Len(ledger) < MaxLedger /\ BuildSecondary

SpecRec == RecInit /\ [][RecNext]_vars

(***************************************************************************)
(* The validator over every content of the imported maps and of the        *)
(* reference topology.                                                     *)
(***************************************************************************)
MaxRuns == 2

ValInit ==
    /\ AggInit
    /\ LedgerInit
    /\ className = "DemandSiteProcess"
    /\ cols_number = Len(MainColumns)
    /\ _features_by_map = << >>
    /\ geo_ids \in [FNames -> { NoId, SomeId(7) }]
    /\ map_areas \in [MapNames -> AreaLists]
    /\ imported \in [MapNames -> BOOLEAN]
    /\ nRuns = 0
    /\ SupIdle

ValNext ==
    \/ nRuns < MaxRuns /\ check_names_with_geo
    \/ nRuns < MaxRuns /\ check_names_between_maps

SpecVal == ValInit /\ [][ValNext]_vars

(***************************************************************************)
(* The steps of one engine in any order: the overlay of a map, the schema  *)
(* check, the two name checks, direct logging, and the readers of the      *)
(* process trail.                                                          *)
(***************************************************************************)
MaxSteps == 3

StepMapAreas ==
    { [m \in MapNames |-> IF m = MainMap THEN << Area("1", "a") >> ELSE << >>],
      [m \in MapNames |-> IF m = MainMap THEN << Area("1", "a") >>
                          ELSE IF m = SecondaryMaps[1]
                               THEN << Area("1", "b"), Area("2", "a") >>
                               ELSE << >>] }

StepInit ==
    /\ AggInit
    /\ LedgerInit
    /\ SupIdle
    /\ className = "DemandSiteProcess"
    /\ cols_number = Len(MainColumns)
    /\ _features_by_map = << >>
    /\ geo_ids \in [FNames -> { NoId, SomeId(7) }]
    /\ map_areas \in StepMapAreas
    /\ imported = [m \in MapNames |-> TRUE]
    /\ nRuns = 0

LogStep == \E failed \in BOOLEAN : log_step("import_maps", failed)

LogError == \E is_warn \in BOOLEAN : log_error(is_warn, "")

InterMap == \E map_name \in { MainMap, SecondaryMaps[1] }, _err \in BOOLEAN :
                _inter_map_with_linkage(map_name, _err)

CheckColumns == \E present \in SUBSET ColumnNames : check_basic_columns(MainMap, present)

ReadLines == \E with_ui \in BOOLEAN : get_process_lines(with_ui)

StepNext ==
    \/ nRuns < MaxSteps /\ LogStep
    \/ nRuns < MaxSteps /\ LogError
    \/ nRuns < MaxSteps /\ InterMap
    \/ nRuns < MaxSteps /\ CheckColumns
    \/ nRuns < MaxSteps /\ check_names_with_geo
    \/ nRuns < MaxSteps /\ check_names_between_maps
    \/ ReadLines
    \/ print_process_line

SpecSteps == StepInit /\ [][StepNext]_vars

(***************************************************************************)
(* The superposition check over every small topology and grid, its         *)
(* operations called in any order.                                         *)
(***************************************************************************)
MaxErrors == 2

SupInit ==
    /\ AggInit
    /\ LedgerInit
    /\ ValIdle
    /\ className = "DemandSiteProcess"
    /\ cols_number = Len(MainColumns)
    /\ nodes = EmptyMap
    /\ connections = << >>
    /\ connection_error = << >>
    /\ errors = << >>
    /\ topo_arcs \in { A \in SUBSET ArcUniverse : Cardinality(A) <= MaxArcs }
    /\ grid \in [GridIds -> GridCells]
    /\ pending = [nodes |-> DOMAIN TopoNodes, arcs |-> topo_arcs, cells |-> DOMAIN grid]
    /\ phased = TRUE
    /\ runNo = 1
    /\ reported = << >>

NodeInit == \E node_id \in pending.nodes : node_init_operation(node_id, TopoNodes[node_id])

ArcCheck == \E arc \in pending.arcs : arc_check_operation(arc)

CellCheck == \E cell_id \in pending.cells : cell_check_operation(cell_id, grid[cell_id])

SupStep(A) == A /\ UNCHANGED << aggVars, cfgVars, ledger, errMark, process_lines, ret, valVars >>

SupNext ==
    \/ SupStep(NodeInit)
    \/ SupStep(ArcCheck)
    \/ SupStep(CellCheck)
    \/ Len(errors) < MaxErrors /\ SupStep(make_errors_dict)

SpecSup == SupInit /\ [][SupNext]_vars

(***************************************************************************)
(* The same checker run again after an arc was added to the topology: the  *)
(* arcs and then the cells are scanned again (the nodes are registered).   *)
(***************************************************************************)
MaxReruns == 1

\* the caller adds the arc and starts the EDGE-SCAN and CELL-SCAN again
add_arc_and_rerun(arc) ==
    /\ topo_arcs' = topo_arcs \cup { arc }
    /\ pending' = [nodes |-> {}, arcs |-> topo_arcs', cells |-> DOMAIN grid]
    /\ phased' = TRUE
    /\ runNo' = runNo + 1
    /\ reported' = connection_error
    /\ lastOp' = [op |-> "rerun"]
    /\ UNCHANGED << nodes, connections, connection_error, errors, grid >>

Rerun ==
    /\ pending.nodes = {} /\ pending.arcs = {} /\ pending.cells = {}
    /\ phased
    /\ \E arc \in ArcUniverse \ topo_arcs : add_arc_and_rerun(arc)

RerunNext ==
    \/ SupNext
    \/ runNo <= MaxReruns /\ SupStep(Rerun)

SpecRerun == SupInit /\ [][RerunNext]_vars

(***************************************************************************)
(* Properties of the cell aggregator (Spec).                               *)
(***************************************************************************)
CellDict(cell) == IF cell \in DOMAIN cells THEN cells[cell] ELSE << >>

EntriesOf(cell, name) == { i \in 1..Len(CellDict(cell)) : CellDict(cell)[i].key = name }

\* C1: after any sequence of _set_cell calls, a pair (cell, name) that was fed
\* metrics m1..mk has exactly one candidate in the per-cell mapping and its
\* metric is m1+...+mk; a pair that was never fed has none (so a new pair
\* only adds an entry and leaves every other candidate's metric alone).
C1_MetricAccumulation ==
    \A cell \in Cells, name \in Names :
        IF fed[<< cell, name >>] = << >>
        THEN EntriesOf(cell, name) = {}
        ELSE /\ Cardinality(EntriesOf(cell, name)) = 1
             /\ \A i \in EntriesOf(cell, name) :
                    CellDict(cell)[i].data.area = SumSeq(fed[<< cell, name >>])

C1_Witness ==
    \E cell \in Cells, a, b \in Names :
        /\ a # b
        /\ Len(fed[<< cell, a >>]) >= 2
        /\ Len(fed[<< cell, b >>]) = 1
        /\ IndexOf(cells[cell], a) < IndexOf(cells[cell], b)
        /\ lastOp.op = "_set_cell" /\ lastOp.name = a

\* C2: right after _set_cell_by_criteria the candidate list of every cell is
\* in descending metric order, and candidates of equal metric are in the
\* order in which their names were first accumulated into the cell.
C2_SortedDescStable ==
    lastOp.op = "_set_cell_by_criteria" =>
        \A cell \in DOMAIN cell_ids :
            LET data == cell_ids[cell].data
                area(i) == Lookup(cells[cell], data[i]).area
            IN  \A i, j \in 1..Len(data) :
                    i < j =>
                        /\ area(i) >= area(j)
                        /\ area(i) = area(j) =>
                               IndexOf(cells[cell], data[i]) < IndexOf(cells[cell], data[j])

C2_Witness ==
    /\ lastOp.op = "_set_cell_by_criteria"
    /\ \E cell \in DOMAIN cell_ids :
        /\ [i \in 1..Len(cells[cell]) |-> cells[cell][i].key] = << "x", "y", "z" >>
        /\ [i \in 1..Len(cells[cell]) |-> cells[cell][i].data.area] = << 1, 1, 2 >>
        /\ cell_ids[cell].data = << "z", "x", "y" >>

\* C3: the records left by a resolve are those a single resolve of a fresh
\* engine over the same accumulated candidates produces: every accumulated
\* cell is present, with the current totals and order, and nothing else.
C3_ResolveIsFunctionOfCells ==
    lastOp.op = "_set_cell_by_criteria" =>
        cell_ids = [ cell \in DOMAIN cells |-> CellRecordOf(cell, cells) ]

C3_Witness ==
    /\ lastOp.op = "_set_cell_by_criteria"
    /\ DOMAIN cell_ids = Cells
    /\ \E cell \in Cells, name \in Names : Len(fed[<< cell, name >>]) >= 2

(***************************************************************************)
(* Properties of the record builder (SpecRec).                             *)
(***************************************************************************)
NewEntries == SubSeq(ledger, errMark + 1, Len(ledger))

BuiltMain == lastOp.op = "get_data_to_save" /\ lastOp.main_data

BuiltSecondary == lastOp.op = "get_data_to_save" /\ ~lastOp.main_data

TopColumnsEmitted(col_data) ==
    /\ Cardinality(DOMAIN ret) = cols_number
    /\ \A i \in 1..cols_number : ret[MainColumns[i]] = col_data[i].name

OneCapacityWarning(cell, col_data) ==
    /\ Len(NewEntries) = 1
    /\ NewEntries[1].is_warn
    /\ NewEntries[1].typ = get_feature_type
    /\ NewEntries[1].msg.kind = "capacity"
    /\ NewEntries[1].msg.row = cell.row /\ NewEntries[1].msg.col = cell.col
    /\ NewEntries[1].msg.count = Len(col_data)
    /\ NewEntries[1].msg.limit = cols_number

\* C4 as stated: for any feature type, a call of get_data_to_save(main_data=True)
\* on a cell with more main-map candidates than maxColumns records one WARNING
\* for the cell and emits only the top maxColumns candidates; otherwise it
\* records no diagnostic.
C4_Original ==
    BuiltMain =>
        LET col_data == get_cell_data_by_map(MainMap, lastOp.cell)
        IN  IF Len(col_data) > cols_number
            THEN OneCapacityWarning(lastOp.cell, col_data) /\ TopColumnsEmitted(col_data)
            ELSE NewEntries = << >>

\* C4 amended: the WARNING is recorded only by the DemandSiteProcess engine;
\* every engine emits only the top maxColumns candidates on overflow, and an
\* engine of another class, or a cell within the limit, records no diagnostic.
C4_CapacityWarning ==
    BuiltMain =>
        LET col_data == get_cell_data_by_map(MainMap, lastOp.cell)
        IN  /\ Len(col_data) > cols_number => TopColumnsEmitted(col_data)
            /\ IF Len(col_data) > cols_number /\ className = "DemandSiteProcess"
               THEN OneCapacityWarning(lastOp.cell, col_data)
               ELSE NewEntries = << >>

C4_Witness ==
    /\ BuiltMain
    /\ className = "DemandSiteProcess"
    /\ Len(get_cell_data_by_map(MainMap, lastOp.cell)) > cols_number
    /\ Len(NewEntries) = 1

\* C5: get_data_to_save(main_data=True) returns a mapping over exactly the
\* first maxColumns column names; column i holds the name of the i-th ranked
\* main-map candidate of the cell while there is one and '' after that (all
\* '' when the cell has no record or no main-map candidate).
C5_MainColumns ==
    BuiltMain =>
        LET col_data == get_cell_data_by_map(MainMap, lastOp.cell)
        IN  /\ DOMAIN ret = { MainColumns[i] : i \in 1..cols_number }
            /\ \A i \in 1..cols_number :
                   ret[MainColumns[i]] =
                       IF i <= Len(col_data) THEN col_data[i].name ELSE ""

C5_Witness ==
    /\ BuiltMain
    /\ cols_number = 2
    /\ Len(get_cell_data_by_map(MainMap, lastOp.cell)) = 1
    /\ ret[MainColumns[1]] # "" /\ ret[MainColumns[2]] = ""

\* C6 as stated: get_data_to_save(main_data=False) records, for each secondary
\* map with more than one candidate in the cell, exactly one diagnostic, which
\* is not of ERROR severity (has_errors stays false for entries of this call);
\* a map with at most one candidate records nothing, and each column holds the
\* first-ranked candidate's name or ''.
C6_SecondaryNonFatal ==
    BuiltSecondary =>
        \A ind \in 1..Len(SecondaryMaps) :
            LET cell_data == get_cell_data_by_map(SecondaryMaps[ind], lastOp.cell)
                mine == SelectSeq(NewEntries, LAMBDA e : e.msg.map = SecondaryMaps[ind])
            IN  /\ ret[InfoColumns[ind]] =
                       IF cell_data # << >> THEN cell_data[1].name ELSE ""
                /\ IF Len(cell_data) > 1
                   THEN /\ Len(mine) = 1
                        /\ mine[1].is_warn
                        /\ ~check_errors(<< mine[1] >>, "")
                   ELSE mine = << >>

(***************************************************************************)
(* Properties of the cross-map name validator (SpecVal).                   *)
(***************************************************************************)
NewErrorsFor(code, name) ==
    SelectSeq(NewEntries, LAMBDA e : ~e.is_warn /\ e.code = code /\ e.msg.name = name)

EntriesWithCode(code) == SelectSeq(ledger, LAMBDA e : e.code = code)

\* C7: one run of check_names_with_geo appends exactly one ERROR of code "10"
\* for every name of the index that has no element id in the reference
\* topology, nothing for a name that has one, nothing else, and returns true
\* exactly when an error of code "10" exists.
C7_ExistenceCheck ==
    lastOp.op = "check_names_with_geo" =>
        /\ \A name \in Keys(_features_by_map) :
               Len(NewErrorsFor("10", name)) =
                   IF geo_ids[name] = NoId THEN 1 ELSE 0
        /\ \A i \in 1..Len(NewEntries) :
               /\ NewEntries[i].code = "10" /\ ~NewEntries[i].is_warn
               /\ NewEntries[i].msg.name \in Keys(_features_by_map)
               /\ \E k \in 1..Len(_features_by_map) :
                      /\ _features_by_map[k].key = NewEntries[i].msg.name
                      /\ _features_by_map[k].data = NewEntries[i].msg.maps
        /\ ret[1] = (\E i \in 1..Len(ledger) : ledger[i].code = "10" /\ ~ledger[i].is_warn)

C7_Witness ==
    /\ lastOp.op = "check_names_with_geo"
    /\ Keys(_features_by_map) = FNames
    /\ geo_ids["a"] = NoId /\ geo_ids["b"] # NoId
    /\ Len(NewEntries) = 1
    /\ ret[1]

\* C8: one run of check_names_between_maps appends exactly one ERROR of code
\* "11" for every name owned by more than one map, listing all its maps, and
\* nothing for a name owned by exactly one map.
C8_UniquenessCheck ==
    lastOp.op = "check_names_between_maps" =>
        /\ \A k \in 1..Len(_features_by_map) :
               LET name == _features_by_map[k].key
                   maps == _features_by_map[k].data
               IN  IF Cardinality(maps) > 1
                   THEN /\ Len(NewErrorsFor("11", name)) = 1
                        /\ NewErrorsFor("11", name)[1].msg.maps = maps
                   ELSE NewErrorsFor("11", name) = << >>
        /\ \A i \in 1..Len(NewEntries) :
               /\ NewEntries[i].code = "11" /\ ~NewEntries[i].is_warn
               /\ NewEntries[i].msg.name \in Keys(_features_by_map)

C8_Witness ==
    /\ lastOp.op = "check_names_between_maps"
    /\ \E k, l \in 1..Len(_features_by_map) :
          /\ Cardinality(_features_by_map[k].data) = 2
          /\ Cardinality(_features_by_map[l].data) = 1
    /\ Len(NewEntries) = 1

\* C9 as stated: running a check again with unchanged inputs leaves the
\* diagnostics of its code ("10", "11") as they were after the first run: no
\* entry of the code occurs twice in the ledger.
C9_ChecksIdempotent ==
    \A code \in { "10", "11" } :
        \A i, j \in 1..Len(EntriesWithCode(code)) :
            i # j => EntriesWithCode(code)[i] # EntriesWithCode(code)[j]

(***************************************************************************)
(* Properties of the superposition check (SpecSup).                        *)
(***************************************************************************)
Elems(seq) == { seq[i] : i \in 1..Len(seq) }

\* some arc of the topology joins, in either direction, a base-type element
\* named b with a secondary-type element named s
Joined(b, s) ==
    \E arc \in topo_arcs :
        \E x, y \in DOMAIN TopoNodes :
            /\ { arc.src_id, arc.dst_id } = { x, y }
            /\ TopoNodes[x].type_id = base_feature_type_id /\ TopoNodes[x].name = b
            /\ TopoNodes[y].type_id = secondary_feature_type_id /\ TopoNodes[y].name = s

Unmatched(b) ==
    { s \in UNION { Elems(grid[c].secondary) : c \in DOMAIN grid } :
        /\ \E c \in DOMAIN grid : b \in Elems(grid[c].base) /\ s \in Elems(grid[c].secondary)
        /\ ~Joined(b, s) }

ScanDone == pending.nodes = {} /\ pending.arcs = {} /\ pending.cells = {}

\* C10: when the node, arc and cell operations were called in phase order,
\* the terminal connection_error holds for each base name exactly the
\* secondary names that share a cell with it and are joined to it by no arc
\* in either direction, has no entry for a base name without such a name, and
\* make_errors_dict then emits exactly one message per entry.
C10_TerminalErrors ==
    (ScanDone /\ phased) =>
        /\ Len(connection_error) = Cardinality(Keys(connection_error))
        /\ \A b \in Keys(connection_error) \cup
                    UNION { Elems(grid[c].base) : c \in DOMAIN grid } :
               IF Unmatched(b) = {}
               THEN b \notin Keys(connection_error)
               ELSE b \in Keys(connection_error)
                    /\ Lookup(connection_error, b) = Unmatched(b)
        /\ lastOp.op = "make_errors_dict" =>
               LET emitted == SubSeq(errors, lastOp.mark + 1, Len(errors))
               IN  /\ Len(emitted) = Len(connection_error)
                   /\ \A i \in 1..Len(emitted) :
                          /\ emitted[i].base = connection_error[i].key
                          /\ emitted[i].secondaries = connection_error[i].data

C10_Witness ==
    /\ ScanDone /\ phased
    /\ lastOp.op = "make_errors_dict"
    /\ Arc(2, 1) \in topo_arcs
    /\ Keys(connection_error) = { "A", "B" }
    /\ Lookup(connection_error, "A") = { "H" }
    /\ Lookup(connection_error, "B") = { "G", "H" }
    /\ Len(errors) = 2

(***************************************************************************)
(* Properties of a rerun of the superposition check (SpecRerun).           *)
(***************************************************************************)
WasReported(b, s) == b \in Keys(reported) /\ s \in Lookup(reported, b)

IsReported(b, s) == b \in Keys(connection_error) /\ s \in Lookup(connection_error, b)

\* C11 as stated: once the rerun over the same cells is complete, a pair
\* (b, s) that the previous run reported as unmatched and that an arc of the
\* topology now joins is no longer among the reported errors.
C11_RerunClearsPair ==
    (runNo > 1 /\ ScanDone /\ phased) =>
        \A b \in Keys(reported) :
            \A s \in Lookup(reported, b) :
                Joined(b, s) => ~IsReported(b, s)

(***************************************************************************)
(* Properties of the process trail and of the engine steps (SpecSteps).    *)
(***************************************************************************)
LastLine == process_lines[Len(process_lines)]

\* C12: the process trail only grows at its end: every step keeps the lines
\* it found as a prefix, a set_process_line call adds exactly one line whose
\* status is ERROR when failed and OK otherwise, and get_process_lines (with
\* or without rendering), print_process_line and append_error leave the
\* trail as it is, the plain read returning it in full.
C12_TrailAppendOnly ==
    [][ /\ Len(process_lines') >= Len(process_lines)
        /\ SubSeq(process_lines', 1, Len(process_lines)) = process_lines
        /\ lastOp'.op = "set_process_line" =>
               /\ Len(process_lines') = Len(process_lines) + 1
               /\ process_lines'[Len(process_lines')].status =
                      IF lastOp'.failed THEN "ERROR" ELSE "OK"
        /\ lastOp'.op \in { "get_process_lines", "print_process_line", "append_error" } =>
               process_lines' = process_lines
        /\ (lastOp'.op = "get_process_lines" /\ ~lastOp'.with_ui) =>
               ret' = process_lines
      ]_vars

C12_Witness ==
    /\ lastOp.op = "get_process_lines" /\ lastOp.with_ui
    /\ Len(process_lines) = 3
    /\ process_lines[1].status = "ERROR"
    /\ process_lines[2].status = "OK"
    /\ process_lines[1].line # process_lines[3].line
    /\ Len(ret) = 3 /\ ret[1].status.highlight_color = "red"
    /\ ledger # << >>

\* C13: check_basic_columns records, for every configured column that the
\* map lacks, one diagnostic of code "20" that is an ERROR when the column is
\* required and a WARNING when it is optional, and records nothing for a
\* column that is present.
C13_SchemaSeverity ==
    lastOp.op = "check_basic_columns" =>
        /\ \A k \in 1..Len(NeededFields) :
               NeededFields[k].set =>
                   LET mine == SelectSeq(NewEntries,
                                         LAMBDA e : e.msg.name = NeededFields[k].name)
                   IN  IF NeededFields[k].name \in lastOp.present
                       THEN mine = << >>
                       ELSE /\ Len(mine) = 1
                            /\ mine[1].code = "20"
                            /\ mine[1].is_warn = ~NeededFields[k].needed
        /\ \A i \in 1..Len(NewEntries) :
               /\ NewEntries[i].code = "20"
               /\ NewEntries[i].msg.name \in ColumnNames \ lastOp.present

C13_Witness ==
    /\ lastOp.op = "check_basic_columns"
    /\ lastOp.present = {}
    /\ Len(NewEntries) = 2
    /\ ~NewEntries[1].is_warn /\ NewEntries[2].is_warn
    /\ Len(get_errors(NewEntries, "20")) = 1
    /\ Len(get_warnings(NewEntries, "20")) = 1

\* C15: a step that starts with an error of the feature type in the ledger
\* logs its _inter_map_with_linkage line with status ERROR whatever the
\* overlay returned, and a run of check_names_with_geo (check_names_between_
\* maps) that starts with an error of code "10" ("11") in the ledger logs
\* ERROR and returns true.
C15_StatusReflectsLedger ==
    LET before == SubSeq(ledger, 1, errMark)
    IN  /\ (lastOp.op = "_inter_map_with_linkage" /\ check_errors(before, "")) =>
               LastLine.status = "ERROR"
        /\ (lastOp.op = "check_names_with_geo" /\ check_errors(before, "10")) =>
               LastLine.status = "ERROR" /\ ret[1]
        /\ (lastOp.op = "check_names_between_maps" /\ check_errors(before, "11")) =>
               LastLine.status = "ERROR" /\ ret[1]

C15_Witness ==
    /\ lastOp.op = "_inter_map_with_linkage"
    /\ ~lastOp._err
    /\ check_errors(SubSeq(ledger, 1, errMark), "")
    /\ ledger = SubSeq(ledger, 1, errMark)
    /\ LastLine.status = "ERROR"
    /\ \E i \in 1..(Len(process_lines) - 1) : process_lines[i].status = "OK"

(***************************************************************************)
(* Further properties of the cell aggregator (Spec).                       *)
(***************************************************************************)
\* C14: every record of cell_ids has a non-empty candidate list,
\* number_of_data equal to its length, the cell_id of its first candidate and
\* the row and col of its key; only cells with candidates are keys, and
\* before any _set_cell call cell_ids is empty and no diagnostic is recorded.
C14_CellRecordShape ==
    /\ \A cell \in DOMAIN cell_ids :
           /\ cell \in DOMAIN cells /\ cells[cell] # << >>
           /\ Len(cell_ids[cell].data) >= 1
           /\ cell_ids[cell].number_of_data = Len(cell_ids[cell].data)
           /\ cell_ids[cell].cell_id = Candidates(cell)[1].cell_id
           /\ cell_ids[cell].row = cell.row /\ cell_ids[cell].col = cell.col
    /\ nCalls = 0 => (cell_ids = EmptyMap /\ ledger = << >>)

C14_Witness ==
    /\ lastOp.op = "_set_cell_by_criteria"
    /\ \E cell \in DOMAIN cell_ids :
          /\ cell_ids[cell].number_of_data = 2
          /\ Candidates(cell)[1].cell_id # Candidates(cell)[2].cell_id
          /\ cell_ids[cell].cell_id = BackendId(cell, Candidates(cell)[1].map_name)
    /\ DOMAIN cell_ids # Cells

\* C16: a _set_cell call on a (cell, name) pair that exists changes nothing
\* but the metric of that candidate: its key, name, cell_id and map_name stay
\* those of the first fragment whatever map the new fragment is from, every
\* other candidate and cell and the resolved records are unchanged, and
\* get_cell_data_by_map lists the name under no other map than the first.
C16_AccumulateFrame ==
    [][ \A cell \in Cells, name \in Names :
          ( /\ lastOp'.op = "_set_cell"
            /\ lastOp'.cell = cell /\ lastOp'.name = name
            /\ cell \in DOMAIN cells
            /\ name \in Keys(cells[cell]) ) =>
            LET i == IndexOf(cells[cell], name)
                old == cells[cell][i]
            IN  /\ DOMAIN cells' = DOMAIN cells
                /\ \A other \in DOMAIN cells \ { cell } : cells'[other] = cells[other]
                /\ Len(cells'[cell]) = Len(cells[cell])
                /\ \A j \in 1..Len(cells[cell]) : j # i => cells'[cell][j] = cells[cell][j]
                /\ cells'[cell][i].key = old.key
                /\ cells'[cell][i].data.name = old.data.name
                /\ cells'[cell][i].data.cell_id = old.data.cell_id
                /\ cells'[cell][i].data.map_name = old.data.map_name
                /\ cell_ids' = cell_ids
                /\ \A m \in MapNames \ { old.data.map_name } :
                       \A k \in 1..Len(get_cell_data_by_map(m, cell)') :
                           get_cell_data_by_map(m, cell)'[k].name # old.key
      ]_vars

C16_Witness ==
    /\ lastOp.op = "_set_cell"
    /\ lastOp.cell \in DOMAIN cell_ids
    /\ Len(fed[<< lastOp.cell, lastOp.name >>]) >= 2
    /\ Lookup(cells[lastOp.cell], lastOp.name).map_name # lastOp.map_name
    /\ \E k \in 1..Len(cell_ids[lastOp.cell].data) :
           cell_ids[lastOp.cell].data[k] = lastOp.name
    /\ get_cell_data_by_map(lastOp.map_name, lastOp.cell) = << >>

====
